---- MODULE Spec2Model ----
(***************************************************************************)
(* The off-screen QML renderer of src/modules/qt/qml_wrapper.cpp.          *)
(*                                                                         *)
(* Two threads cooperate.  The calling ("main") thread runs QmlRenderer:   *)
(* render(w,h,fmt) for a static scene, render(w,h,fmt,frame) for an        *)
(* animated one, and the destructor.  The render thread runs the event     *)
(* loop of QmlCoreRenderer, which receives INIT / RENDER / RESIZE / STOP   *)
(* events through its posted-event queue and handles each one under        *)
(* m_mutex.  The main thread parks on m_cond for each RENDER and for STOP. *)
(*                                                                         *)
(* Toolkit behaviour the model relies on (Qt 5):                           *)
(*  - postEvent appends to the receiving thread's FIFO queue;              *)
(*  - QWaitCondition::wait(m) releases m and parks atomically and takes m  *)
(*    again before it returns; wakeOne with nobody parked is lost;         *)
(*  - QEventLoop::exec delivers posted events in rounds: a round delivers  *)
(*    every event that was queued when the round began, quit() only makes  *)
(*    exec return once the running round is over;                          *)
(*  - destroying a QEventLoop drops the events still posted to it.         *)
(***************************************************************************)
EXTENDS Integers, Sequences, FiniteSets

\* ---------------------------------------------------------------- bounds
MaxFps == 3
MaxDuration == 1
MaxWidth == 2
MaxCalls == 2

\* ------------------------------------------------------ program constants
\* m_dpr(1.0), set by the constructor and handed to the worker by setDPR
m_dpr == 1
\* the millisecond base of the clock step, 1000 / correctedFps
MsPerSecond == 1000
\* the two frames initDriver takes off m_framesCount
CorrectionFrames == 2

Formats == {"RGBA8888", "ARGB32"}
Widths == 1..MaxWidth
Heights == {1}
\* the frame indices a caller asks for: the first three, the end of the
\* timeline and one past it
Frames(framesCount) ==
    {f \in 0..(framesCount + 1) : f <= 2 \/ f >= framesCount}

WorkerEvents == {"INIT", "RENDER", "RESIZE", "STOP"}

NoSize == [w |-> 0, h |-> 0]
QSize(w, h) == [w |-> w, h |-> h]
Scale(s, k) == [w |-> s.w * k, h |-> s.h * k]

NullImage == [w |-> 0, h |-> 0, fmt |-> "none", step |-> 0]
NoDriver == [exists |-> FALSE, installed |-> FALSE, m_step |-> 0,
             m_elapsed |-> 0, advances |-> 0]
NoCall == [kind |-> "none", w |-> 0, h |-> 0, fmt |-> "none", frame |-> 0]
NoRet == [kind |-> "none", w |-> 0, h |-> 0, fmt |-> "none", frame |-> 0,
          img |-> NullImage]
\* a scene node: the class of the object, its duration property (<<>> when it
\* has none, <<ms>> otherwise) and its children in order
Node(kind, duration, children) ==
    [kind |-> kind, duration |-> duration, children |-> children]
\* root == nullptr
NoScene == Node("null", <<>>, <<>>)
\* the result of a call: a value, or undefined behaviour
Value(v) == [ub |-> FALSE, val |-> v]
Undefined == [ub |-> TRUE, val |-> 0]
NotCalled == [state |-> "none", val |-> 0]
NoRequest == [n |-> 0, forced |-> FALSE, storedBefore |-> 0, rendered |-> FALSE,
              gaveUp |-> FALSE, constructed |-> FALSE, used |-> 0]
NoRun == [kind |-> "none", steps |-> 0, step |-> 0]

VARIABLES
    \* the session, fixed by the constructor
    m_fps, m_duration, m_framesCount, sceneOk,
    \* QmlRenderer (calling thread)
    mpc,               \* where the calling thread is
    m_status, m_size, m_ImageFormat,
    m_requestedFrame, m_currentFrame, m_img,
    m_animationDriver, \* the QmlAnimationDriver, NoDriver when there is none
    m_rootItem,        \* "null" | "live" | "deleted"
    filter,            \* installEventFilter(this) is in force
    mq,                \* the calling thread's posted events: "Update" | "Quit"
    round,             \* events of the running delivery round still to deliver
    loopExit,          \* QEventLoop::quit() has been called on the local loop
    inLoop,            \* renderAnimated runs from inside loop.exec()
    \* QmlCoreRenderer (render thread)
    wq,                \* the worker's posted events
    wcur,              \* the event being handled, "none" between events
    wthread,           \* "running" | "finished"
    quitAsked,         \* QThread::quit() has been called
    w_size, w_format, m_fbo, m_image,
    rc,                \* render control: "fresh" | "initialized" | "invalidated"
    ctx,               \* thread affinity of the GL context, or "destroyed"
    surface,           \* "alive" | "destroyed"
    \* m_mutex and m_cond
    mutex,             \* "free" | "main" | "worker"
    parked,            \* the calling thread is inside m_cond.wait
    woken,             \* a wakeOne has reached the parked thread
    \* history
    call,              \* the arguments of the running render call
    ret,               \* what the last finished render call returned
    calls, callSteps, initPosted, renderPosted, loads,
    lostWakeups, glFailed,
    loadFailure,       \* how a failed scene load ended: "none" when none did
    prevRun,           \* how the call before ran, when this call repeats it
    dlog,              \* the order of the teardown steps
    \* scene metadata
    scene,             \* the scene tree getMaxDuration is given
    maxDuration,       \* how the getMaxDuration call ended, NotCalled before
    \* the producer
    ppc,               \* "idle", or "stuck" in a render call that never returns
    force_reload,      \* the producer property "force_reload"
    durationProp,      \* the producer property "duration": <<>> when not set
    qrenderer,         \* the producer property "qrenderer": 0 when NULL
    liveSessions,      \* the QmlRenderer objects constructed and not deleted
    created,           \* how many QmlRenderer objects were constructed
    current_image,     \* self->current_image is not NULL
    current_size,      \* self->current_width, self->current_height
    req,               \* the last producer_get_image call and what it did
    service_lock,      \* the producer's service lock is held
    self_mutex         \* self->mutex is held

producerVars == <<ppc, force_reload, durationProp, qrenderer, liveSessions,
                  created, current_image, current_size, req, service_lock,
                  self_mutex>>
hostVars == <<scene, maxDuration, producerVars>>
sessionVars == <<m_fps, m_duration, m_framesCount, sceneOk>>
rendererVars == <<m_status, m_size, m_ImageFormat, m_requestedFrame,
                  m_currentFrame, m_img, m_animationDriver, m_rootItem, filter>>
loopVars == <<mq, round, loopExit, inLoop>>
workerVars == <<wcur, wthread, w_size, w_format, m_fbo, m_image, rc>>
gpuVars == <<ctx, surface>>
syncVars == <<mutex, parked, woken>>
histVars == <<call, ret, calls, callSteps, initPosted, renderPosted, loads,
              lostWakeups, glFailed, loadFailure>>
vars == <<sessionVars, mpc, rendererVars, loopVars, wq, quitAsked, workerVars,
          gpuVars, syncVars, histVars, prevRun, dlog, hostVars>>

\* ------------------------------------------------------------ arithmetic
Abs(x) == IF x < 0 THEN -x ELSE x

\* C++ integer division: the quotient is truncated towards zero
CDiv(a, b) ==
    IF (a >= 0) = (b > 0) THEN Abs(a) \div Abs(b) ELSE -(Abs(a) \div Abs(b))

\* Integer division by zero is undefined: the build either traps (x86 SIGFPE)
\* or goes on with the quotient the divider leaves (0 on AArch64).
DivZeroQuotients == {0}

DivOutcomes(a, b) ==
    IF b = 0
    THEN {[trap |-> TRUE, val |-> 0]}
         \cup {[trap |-> FALSE, val |-> q] : q \in DivZeroQuotients}
    ELSE {[trap |-> FALSE, val |-> CDiv(a, b)]}

\* ---------------------------------------------------- QmlAnimationDriver
QmlAnimationDriver(msPerStep) ==
    [exists |-> TRUE, installed |-> FALSE, m_step |-> msPerStep,
     m_elapsed |-> 0, advances |-> 0]

\* faulty variant: the elapsed time is set to the step, not increased by it
advance_overwrite(d) ==
    [d EXCEPT !.m_elapsed = d.m_step, !.advances = d.advances + 1]

advance(d) ==
    [d EXCEPT !.m_elapsed = d.m_elapsed + d.m_step, !.advances = d.advances + 1]

elapsed(d) == d.m_elapsed

\* ---------------------------------------------------------- initDriver
\* Every way initDriver can end: a trap, or the step of the new driver.
initDriverOutcomes(framesCount, duration) ==
    LET correctedFrames == framesCount - CorrectionFrames
    IN UNION {
         IF fpsq.trap
         THEN {[trap |-> TRUE, val |-> 0]}
         ELSE DivOutcomes(MsPerSecond, fpsq.val)
         : fpsq \in DivOutcomes(correctedFrames, duration) }

\* --------------------------------------------------------- resetDriver
\* faulty variant: the driver is left installed
resetDriver_keepInstalled(d) == d

\* uninstall() and delete of the driver
resetDriver(d) == NoDriver

\* ---------------------------------------------------------- loadInput
\* loadRootObject fails when the component has errors or the root object is
\* no QQuickItem.  loadInput then goes on (Q_ASSERT is empty in a release
\* build, aborts in a debug build) and calls setWidth on the absent item:
\* undefined behaviour, which either crashes or runs on ("absent").
loadInputOutcomes ==
    IF sceneOk THEN {"loaded"} ELSE {"crash", "absent"}

\* ------------------------------------------------------------- requests
\* faulty variant: init() forgets to post the INIT request
requestInit_dropped(q) == q
requestInit(q) == Append(q, "INIT")
requestRender(q) == Append(q, "RENDER")
\* faulty variant: a resize request is posted behind the stop request
requestStop_thenResize(q) == Append(Append(q, "STOP"), "RESIZE")
requestStop(q) == Append(q, "STOP")

\* ---------------------------------------------------------------- Init
InitRenderer ==
    /\ m_fps \in 1..MaxFps
    /\ m_duration \in 0..MaxDuration
    /\ m_framesCount = m_fps * m_duration
    /\ sceneOk \in BOOLEAN
    /\ mpc = "idle"
    /\ m_status = "NotRunning"
    /\ m_size = NoSize
    /\ m_ImageFormat = "none"
    /\ m_requestedFrame = 0
    /\ m_currentFrame = 0
    /\ m_img = NullImage
    /\ m_animationDriver = NoDriver
    /\ m_rootItem = "null"
    /\ filter = FALSE
    /\ mq = <<>>
    /\ round = 0
    /\ loopExit = FALSE
    /\ inLoop = FALSE
    /\ wq = <<>>
    /\ wcur = "none"
    /\ wthread = "running"
    /\ quitAsked = FALSE
    /\ w_size = NoSize
    /\ w_format = "none"
    /\ m_fbo = NoSize
    /\ m_image = NullImage
    /\ rc = "fresh"
    /\ ctx = "worker"
    /\ surface = "alive"
    /\ mutex = "free"
    /\ parked = FALSE
    /\ woken = FALSE
    /\ call = NoCall
    /\ ret = NoRet
    /\ calls = 0
    /\ callSteps = 0
    /\ initPosted = 0
    /\ renderPosted = 0
    /\ loads = 0
    /\ lostWakeups = 0
    /\ glFailed = FALSE
    /\ loadFailure = "none"
    /\ prevRun = NoRun
    /\ dlog = <<>>

\* no getMaxDuration call is in the renderer's life: loadFromQml does not
\* call it
InitScene ==
    /\ scene = NoScene
    /\ maxDuration = NotCalled

\* producer_qml_init: the structure is calloc-ed, no renderer is stored;
\* read_qml has not set the duration
InitProducer ==
    /\ ppc = "idle"
    /\ force_reload = 0
    /\ durationProp = <<>>
    /\ qrenderer = 0
    /\ liveSessions = {}
    /\ created = 0
    /\ current_image = FALSE
    /\ current_size = NoSize
    /\ req = NoRequest
    /\ service_lock = FALSE
    /\ self_mutex = FALSE

InitHost == InitScene /\ InitProducer

Init == InitRenderer /\ InitHost


\* ------------------------------------------------- m_cond / m_mutex
\* QWaitCondition::wakeOne: wakes the parked thread, lost when nobody is parked
wakeOne ==
    IF parked
    THEN woken' = TRUE /\ UNCHANGED lostWakeups
    ELSE lostWakeups' = lostWakeups + 1 /\ UNCHANGED woken

\* faulty variant: the wait returns without a wake-up
waitReturns_unsignalled == parked /\ mutex = "free"

\* m_cond.wait(m_mutex) can return: woken, and the mutex can be taken again
waitReturns == parked /\ woken /\ mutex = "free"

\* ============================================================ QmlRenderer

\* faulty variant: init() runs on the first call only, animated or not
InitRuns_firstOnly == m_status = "NotRunning"

\* faulty variant: init() runs in every call, static or animated
InitRuns_everyCall == TRUE

\* the condition under which init() does anything
InitRuns == m_status = "NotRunning" \/ m_duration > 0

\* init(width, height, imageFormat); `next` is where the caller goes on
init(width, height, imageFormat, next) ==
    IF ~InitRuns
    THEN /\ mpc' = next
         /\ UNCHANGED <<m_animationDriver, m_size, m_ImageFormat, w_size,
                        w_format, m_rootItem, loads, loadFailure, wq,
                        initPosted, m_status>>
    ELSE \E d \in initDriverOutcomes(m_framesCount, m_duration),
            l \in loadInputOutcomes :
           IF d.trap
           THEN /\ mpc' = "crashed"
                /\ UNCHANGED <<m_animationDriver, m_size, m_ImageFormat,
                               w_size, w_format, m_rootItem, loads,
                               loadFailure, wq, initPosted, m_status>>
           ELSE /\ m_animationDriver' =
                       [QmlAnimationDriver(d.val) EXCEPT !.installed = TRUE]
                /\ m_size' = QSize(width, height)
                /\ m_ImageFormat' = imageFormat
                /\ w_size' = QSize(width, height)
                /\ w_format' = imageFormat
                /\ loads' = loads + 1
                /\ IF l = "crash"
                   THEN /\ mpc' = "crashed"
                        /\ loadFailure' = "crashed"
                        /\ UNCHANGED <<m_rootItem, wq, initPosted, m_status>>
                   ELSE /\ m_rootItem' = IF l = "loaded" THEN "live"
                                                         ELSE m_rootItem
                        /\ loadFailure' = IF l = "absent" THEN "ignored"
                                                          ELSE loadFailure
                        /\ wq' = requestInit(wq)
                        /\ initPosted' = initPosted + 1
                        /\ m_status' = "Initialised"
                        /\ mpc' = next

\* QImage render(int width, int height, QImage::Format format), up to the
\* mutex of polishSyncRender; the producer calls it when duration is not > 0
render_static(width, height, format) ==
    /\ mpc = "idle"
    /\ ~(m_duration > 0)
    /\ calls < MaxCalls
    /\ calls' = calls + 1
    /\ call' = [kind |-> "static", w |-> width, h |-> height, fmt |-> format,
                frame |-> 0]
    /\ ret' = NoRet
    /\ callSteps' = 0
    /\ init(width, height, format, "lock")
    /\ UNCHANGED <<hostVars, sessionVars, prevRun, m_requestedFrame, m_currentFrame, m_img,
                   filter, loopVars, quitAsked, wcur, wthread, m_fbo, m_image,
                   rc, gpuVars, syncVars, renderPosted, lostWakeups, glFailed,
                   dlog>>

\* QImage render(int width, int height, QImage::Format format, int frame), up
\* to the mutex of the first polishSyncRender; called when duration > 0
render_frame(width, height, format, frame) ==
    /\ mpc = "idle"
    /\ m_duration > 0
    /\ calls < MaxCalls
    /\ calls' = calls + 1
    /\ call' = [kind |-> "frame", w |-> width, h |-> height, fmt |-> format,
                frame |-> frame]
    /\ ret' = NoRet
    /\ prevRun' = IF /\ ret.kind = "frame" /\ ret.w = width /\ ret.h = height
                     /\ ret.fmt = format /\ ret.frame = frame
                  THEN [kind |-> "frame", steps |-> callSteps,
                        step |-> ret.img.step]
                  ELSE NoRun
    /\ callSteps' = 0
    /\ m_requestedFrame' = frame
    /\ m_currentFrame' = 0
    /\ init(width, height, format, "lock")
    /\ filter' = IF mpc' = "crashed" THEN filter ELSE TRUE
    /\ round' = 0
    /\ loopExit' = FALSE
    /\ inLoop' = FALSE
    /\ UNCHANGED <<hostVars, sessionVars, m_img, mq, quitAsked, wcur, wthread, m_fbo,
                   m_image, rc, gpuVars, syncVars, renderPosted, lostWakeups,
                   glFailed, dlog>>

\* faulty variant: requestRender is posted without the mutex held
polishSyncRender_lock_nomutex ==
    /\ mpc = "lock"
    /\ wq' = requestRender(wq)
    /\ renderPosted' = renderPosted + 1
    /\ callSteps' = callSteps + 1
    /\ mpc' = "posted"
    /\ UNCHANGED <<hostVars, sessionVars, prevRun, rendererVars, loopVars, quitAsked, workerVars,
                   gpuVars, syncVars, call, ret, calls, initPosted, loads,
                   lostWakeups, glFailed, loadFailure, dlog>>

\* polishSyncRender: polishItems, QMutexLocker lock(mutex), requestRender
polishSyncRender_lock ==
    /\ mpc = "lock"
    /\ mutex = "free"
    /\ mutex' = "main"
    /\ wq' = requestRender(wq)
    /\ renderPosted' = renderPosted + 1
    /\ callSteps' = callSteps + 1
    /\ mpc' = "posted"
    /\ UNCHANGED <<hostVars, sessionVars, prevRun, rendererVars, loopVars, quitAsked, workerVars,
                   gpuVars, parked, woken, call, ret, calls, initPosted, loads,
                   lostWakeups, glFailed, loadFailure, dlog>>

\* polishSyncRender: cond()->wait(mutex) gives the mutex up and parks
polishSyncRender_wait ==
    /\ mpc = "posted"
    /\ mutex' = "free"
    /\ parked' = TRUE
    /\ mpc' = "waiting"
    /\ UNCHANGED <<hostVars, sessionVars, prevRun, rendererVars, loopVars, wq, quitAsked,
                   workerVars, gpuVars, woken, histVars, dlog>>

\* faulty variant: the render step returns with the mutex still held by the
\* calling thread
renderStatic_keepsMutex ==
    /\ mpc = "waiting"
    /\ call.kind = "static"
    /\ waitReturns
    /\ parked' = FALSE
    /\ woken' = FALSE
    /\ mutex' = "main"
    /\ m_img' = m_image
    /\ ret' = [kind |-> call.kind, w |-> call.w, h |-> call.h,
               fmt |-> call.fmt, frame |-> call.frame, img |-> m_image]
    /\ mpc' = "idle"
    /\ UNCHANGED <<hostVars, sessionVars, prevRun, m_status, m_size, m_ImageFormat,
                   m_requestedFrame, m_currentFrame, m_animationDriver,
                   m_rootItem, filter, loopVars, wq, quitAsked, workerVars,
                   gpuVars, call, calls, callSteps, initPosted, renderPosted,
                   loads, lostWakeups, glFailed, loadFailure, dlog>>

\* the wait returns (the mutex is taken and given back by the locker), then
\* renderStatic takes the image and render(w, h, format) returns it
renderStatic ==
    /\ mpc = "waiting"
    /\ call.kind = "static"
    /\ waitReturns
    /\ parked' = FALSE
    /\ woken' = FALSE
    /\ mutex' = "free"
    /\ m_img' = m_image
    /\ ret' = [kind |-> call.kind, w |-> call.w, h |-> call.h,
               fmt |-> call.fmt, frame |-> call.frame, img |-> m_image]
    /\ mpc' = "idle"
    /\ UNCHANGED <<hostVars, sessionVars, prevRun, m_status, m_size, m_ImageFormat,
                   m_requestedFrame, m_currentFrame, m_animationDriver,
                   m_rootItem, filter, loopVars, wq, quitAsked, workerVars,
                   gpuVars, call, calls, callSteps, initPosted, renderPosted,
                   loads, lostWakeups, glFailed, loadFailure, dlog>>

\* the wait returns, then the rest of renderAnimated: advance the driver,
\* take the image, count the frame, post the next UpdateRequest or finish.
\* Each emit imageReady() posts one queued call of QEventLoop::quit.
renderAnimated ==
    /\ mpc = "waiting"
    /\ call.kind = "frame"
    /\ waitReturns
    /\ parked' = FALSE
    /\ woken' = FALSE
    /\ mutex' = "free"
    /\ m_animationDriver' = advance(m_animationDriver)
    /\ LET hit == m_currentFrame = m_requestedFrame
           more == m_currentFrame + 1 < m_framesCount
       IN /\ m_img' = IF hit \/ ~more THEN m_image ELSE m_img
          /\ mq' = mq \o (IF hit THEN <<"Quit">> ELSE <<>>)
                      \o (IF more THEN <<"Update">> ELSE <<"Quit">>)
    /\ m_currentFrame' = m_currentFrame + 1
    /\ inLoop' = TRUE
    /\ mpc' = "exec"
    /\ UNCHANGED <<hostVars, sessionVars, prevRun, m_status, m_size, m_ImageFormat,
                   m_requestedFrame, m_rootItem, filter, round, loopExit, wq,
                   quitAsked, workerVars, gpuVars, histVars, dlog>>

\* loop.exec() may deliver the head of the queue: a round is running, or a new
\* round starts because quit() has not been called yet
Delivers == mpc = "exec" /\ mq # <<>> /\ (round > 0 \/ ~loopExit)
RoundLeft == (IF round > 0 THEN round ELSE Len(mq)) - 1

\* loop.exec() delivers the queued call of QEventLoop::quit
exec_quit ==
    /\ Delivers
    /\ Head(mq) = "Quit"
    /\ mq' = Tail(mq)
    /\ round' = RoundLeft
    /\ loopExit' = TRUE
    /\ UNCHANGED <<hostVars, sessionVars, prevRun, mpc, rendererVars, inLoop, wq, quitAsked,
                   workerVars, gpuVars, syncVars, histVars, dlog>>

\* loop.exec() delivers an UpdateRequest: eventFilter calls renderAnimated,
\* which runs up to the mutex of polishSyncRender
eventFilter ==
    /\ Delivers
    /\ Head(mq) = "Update"
    /\ filter
    /\ mq' = Tail(mq)
    /\ round' = RoundLeft
    /\ mpc' = "lock"
    /\ UNCHANGED <<hostVars, sessionVars, prevRun, rendererVars, loopExit, inLoop, wq, quitAsked,
                   workerVars, gpuVars, syncVars, histVars, dlog>>

\* loop.exec() returns, then the tail of render(w, h, format, frame):
\* resetDriver, removeEventFilter, the deletes, return m_img.  The local
\* QEventLoop dies and takes the quit calls still posted to it along.
render_frame_return ==
    /\ mpc = "exec"
    /\ loopExit
    /\ round = 0
    /\ m_animationDriver' = resetDriver(m_animationDriver)
    /\ filter' = FALSE
    /\ m_rootItem' = IF m_rootItem = "null" THEN "null" ELSE "deleted"
    /\ mq' = SelectSeq(mq, LAMBDA e : e # "Quit")
    /\ loopExit' = FALSE
    /\ inLoop' = FALSE
    /\ ret' = [kind |-> call.kind, w |-> call.w, h |-> call.h,
               fmt |-> call.fmt, frame |-> call.frame, img |-> m_img]
    /\ mpc' = "idle"
    /\ UNCHANGED <<hostVars, sessionVars, prevRun, m_status, m_size, m_ImageFormat,
                   m_requestedFrame, m_currentFrame, m_img, round, wq,
                   quitAsked, workerVars, gpuVars, syncVars, call, calls,
                   callSteps, initPosted, renderPosted, loads, lostWakeups,
                   glFailed, loadFailure, dlog>>

\* ~QmlRenderer: mutex()->lock(), requestStop()
dtor_lock ==
    /\ mpc = "idle"
    /\ mutex = "free"
    /\ mutex' = "main"
    /\ wq' = requestStop(wq)
    /\ dlog' = Append(dlog, "stop_posted")
    /\ mpc' = "dposted"
    /\ UNCHANGED <<hostVars, sessionVars, prevRun, rendererVars, loopVars, quitAsked, workerVars,
                   gpuVars, parked, woken, histVars>>

\* ~QmlRenderer: cond()->wait(mutex())
dtor_wait ==
    /\ mpc = "dposted"
    /\ mutex' = "free"
    /\ parked' = TRUE
    /\ mpc' = "dwaiting"
    /\ UNCHANGED <<hostVars, sessionVars, prevRun, rendererVars, loopVars, wq, quitAsked,
                   workerVars, gpuVars, woken, histVars, dlog>>

\* faulty variant: the destructor asks the thread to quit without waiting for the
\* worker's wake-up
dtor_quit_nowait ==
    /\ mpc = "dwaiting"
    /\ mutex = "free"
    /\ parked' = FALSE
    /\ woken' = FALSE
    /\ mutex' = "free"
    /\ quitAsked' = TRUE
    /\ dlog' = dlog \o <<"stop_acked", "quit_asked">>
    /\ mpc' = "djoin"
    /\ UNCHANGED <<hostVars, sessionVars, prevRun, rendererVars, loopVars, wq, workerVars,
                   gpuVars, histVars>>

\* ~QmlRenderer: the wait returns, mutex()->unlock(), m_rendererThread->quit()
dtor_quit ==
    /\ mpc = "dwaiting"
    /\ waitReturns
    /\ parked' = FALSE
    /\ woken' = FALSE
    /\ mutex' = "free"
    /\ quitAsked' = TRUE
    /\ dlog' = dlog \o <<"stop_acked", "quit_asked">>
    /\ mpc' = "djoin"
    /\ UNCHANGED <<hostVars, sessionVars, prevRun, rendererVars, loopVars, wq, workerVars,
                   gpuVars, histVars>>

\* faulty variant: the surface is deleted before the context
dtor_join_surfaceFirst ==
    /\ mpc = "djoin"
    /\ wthread = "finished"
    /\ rc' = "invalidated"
    /\ ctx' = "destroyed"
    /\ surface' = "destroyed"
    /\ dlog' = dlog \o <<"joined", "invalidated", "surface_deleted",
                         "context_deleted">>
    /\ mpc' = "destroyed"
    /\ UNCHANGED <<hostVars, sessionVars, prevRun, rendererVars, loopVars, wq, quitAsked, wcur,
                   wthread, w_size, w_format, m_fbo, m_image, syncVars,
                   histVars>>

\* ~QmlRenderer: m_rendererThread->wait() returns, then makeCurrent,
\* invalidate, delete m_fbo, doneCurrent, delete m_context, delete surface
dtor_join ==
    /\ mpc = "djoin"
    /\ wthread = "finished"
    /\ rc' = "invalidated"
    /\ ctx' = "destroyed"
    /\ surface' = "destroyed"
    /\ dlog' = dlog \o <<"joined", "invalidated", "context_deleted",
                         "surface_deleted">>
    /\ mpc' = "destroyed"
    /\ UNCHANGED <<hostVars, sessionVars, prevRun, rendererVars, loopVars, wq, quitAsked, wcur,
                   wthread, w_size, w_format, m_fbo, m_image, syncVars,
                   histVars>>

\* ======================================================== QmlCoreRenderer

\* ensureFbo: a target of another size is deleted, a missing one allocated
ensureFbo(fbo, size, dpr) ==
    LET kept == IF fbo # NoSize /\ fbo # Scale(size, dpr) THEN NoSize ELSE fbo
    IN IF kept = NoSize THEN Scale(size, dpr) ELSE kept

\* m_fbo->toImage() and convertTo(m_format); step tells which render step of
\* the call the scene was drawn at
toImage(fbo, format, step) ==
    [w |-> fbo.w, h |-> fbo.h, fmt |-> format, step |-> step]

\* faulty variant: the event posted last is delivered first
event_lock_lifo ==
    /\ wthread = "running"
    /\ wcur = "none"
    /\ wq # <<>>
    /\ mutex = "free"
    /\ mutex' = "worker"
    /\ wcur' = wq[Len(wq)]
    /\ wq' = SubSeq(wq, 1, Len(wq) - 1)
    /\ UNCHANGED <<hostVars, sessionVars, prevRun, mpc, rendererVars, loopVars, quitAsked,
                   wthread, w_size, w_format, m_fbo, m_image, rc, gpuVars,
                   parked, woken, histVars, dlog>>

\* event(): QMutexLocker lock(&m_mutex) on the next posted event
event_lock ==
    /\ wthread = "running"
    /\ wcur = "none"
    /\ wq # <<>>
    /\ mutex = "free"
    /\ mutex' = "worker"
    /\ wcur' = Head(wq)
    /\ wq' = Tail(wq)
    /\ UNCHANGED <<hostVars, sessionVars, prevRun, mpc, rendererVars, loopVars, quitAsked,
                   wthread, w_size, w_format, m_fbo, m_image, rc, gpuVars,
                   parked, woken, histVars, dlog>>

\* QmlCoreRenderer::init
core_init ==
    /\ rc' = "initialized"
    /\ UNCHANGED <<m_fbo, m_image, ctx, woken, lostWakeups, glFailed, dlog>>

\* faulty variant: a failed make-current drops the stored image
core_render_dropsImage(madeCurrent) ==
    IF ~madeCurrent
    THEN /\ glFailed' = TRUE
         /\ m_image' = NullImage
         /\ UNCHANGED <<m_fbo, rc, ctx, woken, lostWakeups, dlog>>
    ELSE /\ m_fbo' = ensureFbo(m_fbo, w_size, m_dpr)
         /\ m_image' = toImage(m_fbo', w_format, callSteps)
         /\ wakeOne
         /\ UNCHANGED <<rc, ctx, glFailed, dlog>>

\* QmlCoreRenderer::render; madeCurrent is what makeCurrent returned
core_render(madeCurrent) ==
    IF ~madeCurrent
    THEN /\ glFailed' = TRUE
         /\ UNCHANGED <<m_fbo, m_image, rc, ctx, woken, lostWakeups, dlog>>
    ELSE /\ m_fbo' = ensureFbo(m_fbo, w_size, m_dpr)
         /\ m_image' = toImage(m_fbo', w_format, callSteps)
         /\ wakeOne
         /\ UNCHANGED <<rc, ctx, glFailed, dlog>>

\* faulty variant: the context stays with the thread that has it
moveToThread_nowhere(c, thread) == c

\* m_context->moveToThread(thread), called by the thread that has the context
moveToThread(c, thread) == thread

\* faulty variant: a worker that was never initialised leaves the stop
\* request unanswered
cleanup_initialisedOnly ==
    IF rc = "fresh"
    THEN UNCHANGED <<m_fbo, m_image, rc, ctx, woken, lostWakeups, glFailed,
                     dlog>>
    ELSE /\ rc' = "invalidated"
         /\ m_fbo' = NoSize
         /\ ctx' = moveToThread(ctx, "main")
         /\ wakeOne
         /\ dlog' = dlog \o <<"worker_invalidated", "fbo_released",
                              "context_moved", "stop_signalled">>
         /\ UNCHANGED <<m_image, glFailed>>

\* QmlCoreRenderer::cleanup
cleanup ==
    /\ rc' = "invalidated"
    /\ m_fbo' = NoSize
    /\ ctx' = moveToThread(ctx, "main")
    /\ wakeOne
    /\ dlog' = dlog \o <<"worker_invalidated", "fbo_released",
                         "context_moved", "stop_signalled">>
    /\ UNCHANGED <<m_image, glFailed>>

\* event(): the switch on the event type; the mutex is given back when the
\* locker goes out of scope (render gives it back itself after wakeOne)
event ==
    /\ wcur # "none"
    /\ IF wcur = "INIT" THEN core_init
       ELSE IF wcur = "RENDER" THEN \E madeCurrent \in BOOLEAN :
                                       core_render(madeCurrent)
       ELSE IF wcur = "STOP" THEN cleanup
       ELSE UNCHANGED <<m_fbo, m_image, rc, ctx, woken, lostWakeups,
                        glFailed, dlog>>
    /\ mutex' = "free"
    /\ wcur' = "none"
    /\ UNCHANGED <<hostVars, sessionVars, prevRun, mpc, rendererVars, loopVars, wq, quitAsked,
                   wthread, w_size, w_format, surface, parked, call, ret,
                   calls, callSteps, initPosted, renderPosted, loads,
                   loadFailure>>

\* the render thread's event loop leaves after QThread::quit()
thread_exit ==
    /\ wthread = "running"
    /\ quitAsked
    /\ wcur = "none"
    /\ wthread' = "finished"
    /\ UNCHANGED <<hostVars, sessionVars, prevRun, mpc, rendererVars, loopVars, wq, quitAsked,
                   wcur, w_size, w_format, m_fbo, m_image, rc, gpuVars,
                   syncVars, histVars, dlog>>

\* ================================================================= Next
Next ==
    \/ \E w \in Widths, h \in Heights, f \in Formats :
          render_static(w, h, f)
    \/ \E w \in Widths, h \in Heights, f \in Formats,
          frame \in Frames(m_framesCount) :
          render_frame(w, h, f, frame)
    \/ polishSyncRender_lock
    \/ polishSyncRender_wait
    \/ renderStatic
    \/ renderAnimated
    \/ exec_quit
    \/ eventFilter
    \/ render_frame_return
    \/ dtor_lock
    \/ dtor_wait
    \/ dtor_quit
    \/ dtor_join
    \/ event_lock
    \/ event
    \/ thread_exit

Spec == Init /\ [][Next]_vars

TypeOK ==
    /\ mpc \in {"idle", "lock", "posted", "waiting", "exec", "dposted",
                "dwaiting", "djoin", "destroyed", "crashed"}
    /\ mutex \in {"free", "main", "worker"}
    /\ wcur \in WorkerEvents \cup {"none"}
    /\ \A i \in 1..Len(wq) : wq[i] \in WorkerEvents
    /\ \A i \in 1..Len(mq) : mq[i] \in {"Update", "Quit"}
    /\ round \in 0..Len(mq)
    /\ m_currentFrame \in Nat


\* ========================================================= CoreRenderer
\* The worker class CoreRenderer of corerenderer.h, with the same interface
\* as QmlCoreRenderer.  Its owner is not part of the sources; it is modelled
\* as a facade that sets the size and the format, asks for the init in its
\* first request and then goes through the rendezvous and the teardown of
\* QmlRenderer.  The worker state uses the variables of QmlCoreRenderer;
\* m_animationDriver is the driver CoreRenderer owns.

\* CoreRenderer::ensureFbo: the release of a target of another size is
\* commented out, the target is only made when there is none
CoreRenderer_ensureFbo(fbo, size, dpr) ==
    IF fbo = NoSize THEN Scale(size, dpr) ELSE fbo

\* CoreRenderer::init
CoreRenderer_init ==
    /\ rc' = "initialized"
    /\ m_animationDriver' =
           [QmlAnimationDriver(CDiv(MsPerSecond, m_fps))
               EXCEPT !.installed = TRUE]
    /\ wcur' = "none"
    /\ UNCHANGED <<m_fbo, m_image, ctx, woken, lostWakeups, glFailed, dlog>>

\* CoreRenderer::render up to lock->unlock(); the advance of the driver
\* follows outside the mutex
CoreRenderer_render(madeCurrent) ==
    IF ~madeCurrent
    THEN /\ glFailed' = TRUE
         /\ wcur' = "none"
         /\ UNCHANGED <<m_fbo, m_image, rc, ctx, woken, lostWakeups,
                        m_animationDriver, dlog>>
    ELSE /\ m_fbo' = CoreRenderer_ensureFbo(m_fbo, w_size, m_dpr)
         /\ m_image' = toImage(m_fbo', w_format, callSteps)
         /\ wakeOne
         /\ wcur' = "ADVANCE"
         /\ UNCHANGED <<rc, ctx, glFailed, m_animationDriver, dlog>>

\* CoreRenderer::cleanup
CoreRenderer_cleanup ==
    /\ rc' = "invalidated"
    /\ ctx' = moveToThread(ctx, "main")
    /\ wakeOne
    /\ wcur' = "none"
    /\ dlog' = dlog \o <<"worker_invalidated", "context_moved",
                         "stop_signalled">>
    /\ UNCHANGED <<m_fbo, m_image, glFailed, m_animationDriver>>

\* CoreRenderer::event
CoreRenderer_event ==
    /\ wcur \in WorkerEvents
    /\ IF wcur = "INIT" THEN CoreRenderer_init
       ELSE IF wcur = "RENDER" THEN \E madeCurrent \in BOOLEAN :
                                       CoreRenderer_render(madeCurrent)
       ELSE IF wcur = "STOP" THEN CoreRenderer_cleanup
       ELSE /\ wcur' = "none"
            /\ UNCHANGED <<m_fbo, m_image, rc, ctx, woken, lostWakeups,
                           glFailed, m_animationDriver, dlog>>
    /\ mutex' = "free"
    /\ UNCHANGED <<hostVars, sessionVars, prevRun, mpc, m_status, m_size, m_ImageFormat,
                   m_requestedFrame, m_currentFrame, m_img, m_rootItem,
                   filter, loopVars, wq, quitAsked, wthread, w_size, w_format,
                   surface, parked, call, ret, calls, callSteps, initPosted,
                   renderPosted, loads, loadFailure>>

\* CoreRenderer::render after lock->unlock(): m_animationDriver->advance()
CoreRenderer_advance ==
    /\ wcur = "ADVANCE"
    /\ m_animationDriver' = advance(m_animationDriver)
    /\ wcur' = "none"
    /\ UNCHANGED <<hostVars, sessionVars, prevRun, mpc, m_status, m_size, m_ImageFormat,
                   m_requestedFrame, m_currentFrame, m_img, m_rootItem,
                   filter, loopVars, wq, quitAsked, wthread, w_size, w_format,
                   m_fbo, m_image, rc, gpuVars, syncVars, histVars, dlog>>

\* the owner starts a render request: setSize, setFormat, requestInit in
\* the first request
owner_request(width, height, format) ==
    /\ mpc = "idle"
    /\ calls < MaxCalls
    /\ calls' = calls + 1
    /\ w_size' = QSize(width, height)
    /\ w_format' = format
    /\ wq' = IF initPosted = 0 THEN requestInit(wq) ELSE wq
    /\ initPosted' = IF initPosted = 0 THEN 1 ELSE initPosted
    /\ mpc' = "lock"
    /\ UNCHANGED <<hostVars, sessionVars, prevRun, rendererVars, loopVars, quitAsked,
                   wcur, wthread, m_fbo, m_image, rc, gpuVars, syncVars, call,
                   ret, callSteps, renderPosted, loads, lostWakeups, glFailed,
                   loadFailure, dlog>>

\* the owner leaves the wait of its render request and takes the image
owner_resume ==
    /\ mpc = "waiting"
    /\ waitReturns
    /\ parked' = FALSE
    /\ woken' = FALSE
    /\ mutex' = "free"
    /\ m_img' = m_image
    /\ mpc' = "idle"
    /\ UNCHANGED <<hostVars, sessionVars, prevRun, m_status, m_size, m_ImageFormat,
                   m_requestedFrame, m_currentFrame, m_animationDriver,
                   m_rootItem, filter, loopVars, wq, quitAsked, workerVars,
                   gpuVars, histVars, dlog>>

\* a CoreRenderer on its thread, with FPS and DPR set, before any request
InitCore ==
    /\ Init
    /\ m_duration = 0
    /\ sceneOk

NextCore ==
    \/ \E w \in Widths, h \in Heights, f \in Formats : owner_request(w, h, f)
    \/ polishSyncRender_lock
    \/ polishSyncRender_wait
    \/ owner_resume
    \/ dtor_lock
    \/ dtor_wait
    \/ dtor_quit
    \/ dtor_join
    \/ event_lock
    \/ CoreRenderer_event
    \/ CoreRenderer_advance
    \/ thread_exit

SpecCore == InitCore /\ [][NextCore]_vars

\* ======================================================= getMaxDuration
\* getMaxDuration is a function of the scene tree alone.  It is applied to
\* the scenes of an object with at most MaxChildren children, animations
\* or groups of at most MaxChildren animations.
MaxChildren == 2

\* the classes getMaxDuration tells apart: the two groups, the animations
\* that have a duration, and any other object
ContainerKinds == {"Sequential", "Parallel", "Item"}
\* the duration property of an animation: none, not positive, below one
\* second, one second, two and a half seconds
DurationProps == {<<>>, <<0>>, <<500>>, <<1000>>, <<2500>>}
\* the durations of the animations inside the inner groups
InnerDurationProps == {<<1000>>, <<2500>>}
\* milliseconds in a second, getIntProp
MsInSecond == 1000

\* the lists of at most n elements of S
ListsOf(S, n) == UNION {[1..k -> S] : k \in 0..n}
Animations(props) == {Node("Animation", d, <<>>) : d \in props}
InnerGroups ==
    {Node(k, <<>>, c) : k \in {"Sequential", "Parallel"},
                        c \in ListsOf(Animations(InnerDurationProps),
                                      MaxChildren)}
Scenes ==
    {NoScene} \cup Animations(DurationProps)
        \cup {Node(k, <<>>, c) :
                 k \in ContainerKinds,
                 c \in ListsOf(Animations(DurationProps) \cup InnerGroups,
                               MaxChildren)}

\* faulty variant: the milliseconds are rounded to the nearest second
getIntProp_rounded(object) ==
    IF Len(object.duration) = 0 THEN 0
    ELSE IF object.duration[1] > 0
         THEN CDiv(object.duration[1] + 500, MsInSecond)
         ELSE 0

\* getIntProp(object, "duration")
getIntProp(object) ==
    IF Len(object.duration) = 0 THEN 0
    ELSE IF object.duration[1] > 0
         THEN CDiv(object.duration[1], MsInSecond)
         ELSE 0

\* faulty variant: the child's duration is assigned, not added
dur_seq_assigned(durationList) ==
    IF durationList = <<>> THEN 0 ELSE durationList[Len(durationList)]

RECURSIVE dur_seq(_)
\* the loop of the Sequential branch: dur_seq += childDuration
dur_seq(durationList) ==
    IF durationList = <<>> THEN 0
    ELSE dur_seq(SubSeq(durationList, 1, Len(durationList) - 1))
             + durationList[Len(durationList)]

\* *max_element(begin, end) of a list that is not empty: the first of the
\* largest elements
max_element(durationList) ==
    durationList[CHOOSE i \in 1..Len(durationList) :
                    /\ \A j \in 1..Len(durationList) :
                          durationList[j] <= durationList[i]
                    /\ \A j \in 1..(i - 1) : durationList[j] < durationList[i]]

\* the loop of the last branch: the index of the first child whose duration
\* is > 0, 0 when the loop ends without one
firstPositive(durationList) ==
    IF \E i \in 1..Len(durationList) : durationList[i] > 0
    THEN CHOOSE i \in 1..Len(durationList) :
            /\ durationList[i] > 0
            /\ \A j \in 1..(i - 1) : ~(durationList[j] > 0)
    ELSE 0

RECURSIVE getMaxDuration(_)
\* int getMaxDuration(QObject *root, int duration).  Undefined where the
\* behaviour is: *max_element of an empty list (Parallel without children),
\* and the end of the function reached without a return (an object that is
\* no group and no animation, none of whose children has a duration > 0).
getMaxDuration(root) ==
    IF root.kind = "null" THEN Value(0)
    ELSE
      LET n == Len(root.children)
          child == [i \in 1..n |-> getMaxDuration(root.children[i])]
          vals == [i \in 1..n |-> child[i].val]
          hit == firstPositive(vals)
      IN  IF root.kind = "Sequential"
          THEN IF \E i \in 1..n : child[i].ub THEN Undefined
               ELSE Value(dur_seq(vals))
          ELSE IF root.kind = "Parallel"
          THEN IF n = 0 \/ \E i \in 1..n : child[i].ub THEN Undefined
               ELSE Value(max_element(vals))
          ELSE IF root.kind = "Animation"
          THEN Value(getIntProp(root))
          ELSE IF hit > 0 /\ \A j \in 1..hit : ~child[j].ub
               THEN Value(vals[hit])
               ELSE Undefined

\* what a call with undefined behaviour can end in: a crash, or any value
UndefinedOutcomes ==
    {[state |-> "crashed", val |-> 0]}
        \cup {[state |-> "returned", val |-> v] : v \in {-1, 0, 1}}

\* a call getMaxDuration(scene)
getMaxDuration_call ==
    /\ maxDuration = NotCalled
    /\ LET r == getMaxDuration(scene)
       IN maxDuration' \in (IF r.ub THEN UndefinedOutcomes
                            ELSE {[state |-> "returned", val |-> r.val]})
    /\ UNCHANGED <<scene, producerVars, sessionVars, mpc, rendererVars,
                   loopVars, wq, quitAsked, workerVars, gpuVars, syncVars,
                   histVars, prevRun, dlog>>

InitDur ==
    /\ InitRenderer
    /\ m_fps = 1
    /\ m_duration = 0
    /\ sceneOk
    /\ InitProducer
    /\ scene \in Scenes
    /\ maxDuration = NotCalled

NextDur == getMaxDuration_call

SpecDur == InitDur /\ [][NextDur]_vars

\* ============================================================= producer
\* producer_get_image with renderKdenliveTitle, one call at a time (the
\* service lock is held from the start to the end of a call).  The render
\* call of the session is taken as a whole: it returns an image or it never
\* returns.

\* read_qml: returns early and leaves the properties alone when the
\* resource cannot be opened or the component has errors; otherwise sets
\* "duration" to 0 and traverseQml may set it again
read_qml(duration) == {duration} \cup {<<d>> : d \in 0..MaxDuration}

\* faulty variant: every call asks for a refresh
force_refresh_always(reload) == 1

\* the force_refresh argument producer_get_image passes
force_refresh(reload) == IF reload # 0 THEN 1 ELSE 0

\* renderKdenliveTitle(self, frame, format, width, height, position,
\* force_refresh) and what producer_get_image does with its result; dp is
\* the "duration" property at the call
renderKdenliveTitle(width, height, dp, fr) ==
    \E appOk \in BOOLEAN, returns \in BOOLEAN :
          LET anim_duration == IF dp = <<>> THEN 0 ELSE dp[1]
              animated == anim_duration > 0
              invalidate == \/ dp # <<>>
                            \/ fr = 1
                            \/ QSize(width, height) # current_size
                            \/ animated
              image == IF invalidate /\ ~animated THEN FALSE
                       ELSE current_image
              renders == ~image \/ animated
              discards == renders /\ fr = 1 /\ qrenderer # 0
              stored == IF discards THEN 0 ELSE qrenderer
              constructs == renders /\ stored = 0 /\ appOk
              givesUp == renders /\ stored = 0 /\ ~appOk
              renderer == IF constructs THEN created + 1 ELSE stored
          IN  /\ durationProp' = dp
              /\ force_reload' = 0
              /\ liveSessions' =
                     (IF discards THEN liveSessions \ {qrenderer}
                      ELSE liveSessions)
                         \cup (IF constructs THEN {created + 1} ELSE {})
              /\ created' = IF constructs THEN created + 1 ELSE created
              /\ qrenderer' = renderer
              /\ IF renders /\ ~givesUp
                 THEN IF returns
                      THEN \* the unlock at the end, then mlt_service_unlock
                           /\ current_image' = TRUE
                           /\ current_size' = QSize(width, height)
                           /\ self_mutex' = FALSE
                           /\ service_lock' = FALSE
                           /\ ppc' = "idle"
                      ELSE \* inside renderer->render, both locks held
                           /\ current_image' = image
                           /\ current_size' = current_size
                           /\ self_mutex' = TRUE
                           /\ service_lock' = TRUE
                           /\ ppc' = "stuck"
                 ELSE \* the unlock before the early return when there is
                      \* no application, or the unlock at the end; then
                      \* mlt_service_unlock
                      /\ current_image' = image
                      /\ current_size' = current_size
                      /\ self_mutex' = FALSE
                      /\ service_lock' = FALSE
                      /\ ppc' = "idle"
              /\ req' = [n |-> req.n + 1, forced |-> force_reload # 0,
                         storedBefore |-> qrenderer,
                         rendered |-> renders /\ ~givesUp,
                         gaveUp |-> givesUp,
                         constructed |-> constructs,
                         used |-> IF renders /\ ~givesUp THEN renderer ELSE 0]

\* producer_get_image, the variant with read_qml(properties, profile)
producer_get_image(width, height) ==
    /\ ppc = "idle"
    /\ ~service_lock
    /\ req.n < MaxCalls
    /\ \E dp \in (IF force_reload > 1 THEN read_qml(durationProp)
                  ELSE {durationProp}) :
          renderKdenliveTitle(width, height, dp, force_refresh(force_reload))
    /\ UNCHANGED <<scene, maxDuration, sessionVars, mpc, rendererVars,
                   loopVars, wq, quitAsked, workerVars, gpuVars, syncVars,
                   histVars, prevRun, dlog>>

\* producer_get_image, the variant with read_qml(properties): read_qml
\* throws when the resource cannot be opened and the exception leaves
\* producer_get_image; both branches pass force_refresh = 1
producer_get_image_first(width, height) ==
    /\ ppc = "idle"
    /\ ~service_lock
    /\ req.n < MaxCalls
    /\ \E opened \in BOOLEAN :
          IF force_reload > 1 /\ ~opened
          THEN \* mlt_service_lock was taken, self->mutex not yet
               /\ ppc' = "thrown"
               /\ service_lock' = TRUE
               /\ self_mutex' = self_mutex
               /\ req' = [NoRequest EXCEPT !.n = req.n + 1, !.forced = TRUE,
                                           !.storedBefore = qrenderer]
               /\ UNCHANGED <<force_reload, durationProp, qrenderer,
                              liveSessions, created, current_image,
                              current_size>>
          ELSE renderKdenliveTitle(width, height, durationProp, 1)
    /\ UNCHANGED <<scene, maxDuration, sessionVars, mpc, rendererVars,
                   loopVars, wq, quitAsked, workerVars, gpuVars, syncVars,
                   histVars, prevRun, dlog>>

\* the host sets "force_reload" when the resource has changed
set_force_reload(v) ==
    /\ ppc = "idle"
    /\ force_reload # v
    /\ force_reload' = v
    /\ UNCHANGED <<scene, maxDuration, ppc, durationProp, qrenderer,
                   liveSessions, created, current_image, current_size, req,
                   service_lock, self_mutex,
                   sessionVars, mpc, rendererVars, loopVars, wq, quitAsked,
                   workerVars, gpuVars, syncVars, histVars, prevRun, dlog>>

\* producer_qml_init has run: read_qml may have set the duration
InitProd ==
    /\ InitRenderer
    /\ m_fps = 1
    /\ m_duration = 0
    /\ sceneOk
    /\ InitScene
    /\ ppc = "idle"
    /\ force_reload = 0
    /\ durationProp \in read_qml(<<>>)
    /\ qrenderer = 0
    /\ liveSessions = {}
    /\ created = 0
    /\ current_image = FALSE
    /\ current_size = NoSize
    /\ req = NoRequest
    /\ service_lock = FALSE
    /\ self_mutex = FALSE

NextProd ==
    \/ \E w \in Widths, h \in Heights : producer_get_image(w, h)
    \/ \E v \in 1..2 : set_force_reload(v)

SpecProd == InitProd /\ [][NextProd]_vars

\* the producer with the first variant of producer_get_image
NextProdFirst ==
    \/ \E w \in Widths, h \in Heights : producer_get_image_first(w, h)
    \/ \E v \in 1..2 : set_force_reload(v)

SpecProdFirst == InitProd /\ [][NextProdFirst]_vars

\* ================================================================ claims

\* the session's clock step is defined: no division by zero in initDriver
\* and a positive corrected frame rate
HealthySession ==
    /\ m_duration > 0
    /\ CDiv(m_framesCount - CorrectionFrames, m_duration) > 0

\* the image is a w x h picture in format fmt
ImageIs(img, w, h, fmt) == img.w = w /\ img.h = h /\ img.fmt = fmt /\ w * h > 0

\* the RENDER requests posted and not yet handled to the end
OutstandingRenders ==
    Cardinality({i \in 1..Len(wq) : wq[i] = "RENDER"})
        + (IF wcur = "RENDER" THEN 1 ELSE 0)

\* position of a teardown step in dlog, 0 when it has not happened
Pos(e) == IF \E i \in 1..Len(dlog) : dlog[i] = e
          THEN CHOOSE i \in 1..Len(dlog) : dlog[i] = e
          ELSE 0
\* if b has happened, a happened before it
Before(a, b) == Pos(b) > 0 => (Pos(a) > 0 /\ Pos(a) < Pos(b))

\* C1: a finished renderFrame(w, h, fmt, i) with 0 <= i < F*D returns the
\* image drawn at render step i+1, the step followed by the (i+1)-th advance
\* (stated for sessions whose clock step is defined)
C1_FrameImageIsRequestedStep ==
    (HealthySession /\ ret.kind = "frame"
       /\ ret.frame >= 0 /\ ret.frame < m_framesCount)
        => ret.img.step = ret.frame + 1

\* C2: a finished renderFrame(w, h, fmt, i) with i >= F*D returns the image of
\* the step at which the current frame index reached F*D
\* (stated for sessions whose clock step is defined)
C2_PastEndReturnsLastFrame ==
    (HealthySession /\ ret.kind = "frame" /\ ret.frame >= m_framesCount)
        => ret.img.step = m_framesCount

\* C3: on a static session with a loadable scene renderStatic(w, h, fmt)
\* completes (it does not crash) and what it returns is a w x h image in fmt
C3_StaticImageAsRequested ==
    (~(m_duration > 0) /\ sceneOk)
        => /\ mpc # "crashed"
           /\ ret.kind = "static" => ImageIs(ret.img, ret.w, ret.h, ret.fmt)

\* C4: once the worker has left a render request whose make-current failed,
\* the caller parked on the condition has been woken
C4_FailedRenderSignals ==
    glFailed => (~parked \/ woken)

\* C5: a scene that fails to load never makes the call crash nor go on with
\* the absent root item (the failure is returned to the caller instead)
C5_LoadFailureReported ==
    loadFailure = "none"

\* C6: while the worker handles a render request the calling thread is parked
\* in the wait of that render step, and no wake-up was ever issued with nobody
\* parked
C6_CallerParkedDuringRender ==
    /\ wcur = "RENDER" => (parked /\ ~woken /\ mpc = "waiting")
    /\ lostWakeups = 0
C6_Witness ==
    wcur = "RENDER" /\ parked /\ calls = 2 /\ callSteps > 1

\* C7: at most one render request is outstanding
C7_OneOutstandingRender ==
    OutstandingRenders <= 1
C7_Witness ==
    OutstandingRenders = 1 /\ calls = 2 /\ call.kind = "frame" /\ inLoop

\* C8 as claimed: once a render request has been posted, the worker's init
\* has completed
C8_InitCompleteBeforeRenderPosted ==
    renderPosted > 0 => rc # "fresh"
\* C8 as amended: a render request is posted only after an INIT request, and
\* the worker handles a render request only with its render control
\* initialised; every queued RENDER has the initialisation done, or an INIT
\* ahead of it that is queued or being handled
C8_InitAheadOfRender ==
    /\ renderPosted > 0 => initPosted > 0
    /\ wcur = "RENDER" => rc = "initialized"
    /\ \A i \in 1..Len(wq) :
          wq[i] = "RENDER"
              => \/ rc = "initialized"
                 \/ wcur = "INIT"
                 \/ \E j \in 1..(i - 1) : wq[j] = "INIT"
C8_Witness ==
    wq = <<"INIT", "RENDER">> /\ rc = "fresh"

C10_TeardownOrder ==
    /\ Before("stop_posted", "stop_signalled")
    /\ Before("stop_signalled", "stop_acked")
    /\ Before("stop_acked", "quit_asked")
    /\ Before("quit_asked", "joined")
    /\ Before("joined", "context_deleted")
    /\ Before("joined", "surface_deleted")
    /\ quitAsked => ctx # "worker"
    /\ (ctx = "destroyed" \/ surface = "destroyed") => wthread = "finished"
C10_Witness ==
    mpc = "destroyed" /\ calls > 0 /\ Pos("surface_deleted") > 0

\* a step of the destructor or of the render thread
TeardownStep ==
    dtor_wait \/ dtor_quit \/ dtor_join \/ event_lock \/ event \/ thread_exit

\* C11: a session destroyed without any render call never gets stuck in its
\* destructor: until the destructor is through, a step of the destructor or
\* of the render thread is possible; the stop request is handled by the
\* never-initialised worker, and the destructor is through only with the stop
\* signalled, the wait left and the thread finished
C11_TeardownWithoutRender ==
    calls = 0 =>
        /\ mpc \in {"dposted", "dwaiting", "djoin"} => ENABLED TeardownStep
        /\ wcur = "STOP" => rc = "fresh"
        /\ mpc = "destroyed" => /\ wthread = "finished"
                                /\ ~parked
                                /\ wq = <<>>
                                /\ Pos("stop_signalled") > 0
C11_Witness ==
    calls = 0 /\ mpc = "destroyed" /\ wthread = "finished"
        /\ rc = "invalidated" /\ initPosted = 0

\* C12: when a render call has returned, the worker's requested size and its
\* render target are the size of that call, and the returned image has the
\* dimensions of that call, on static and on animated sessions
C12_ResizeFollowsCall ==
    (mpc = "idle" /\ ret.kind # "none")
        => /\ w_size = QSize(ret.w, ret.h)
           /\ m_fbo = Scale(QSize(ret.w, ret.h), m_dpr)
           /\ ret.img.w = ret.w /\ ret.img.h = ret.h

\* C14: during a renderFrame call, from init to the return, the clock made by
\* the call is installed (so before the first render step and through the
\* last), and when the call has returned no clock is installed any more
C14_ClockInstalledOnlyDuringCall ==
    call.kind = "frame" =>
        /\ mpc \in {"lock", "posted", "waiting", "exec"}
              => (m_animationDriver.exists /\ m_animationDriver.installed)
        /\ mpc = "idle" => ~m_animationDriver.installed
C14_Witness ==
    /\ call.kind = "frame" /\ ret.kind = "frame" /\ mpc = "idle"
    /\ callSteps >= 2 /\ calls = 2 /\ ~m_animationDriver.installed

\* C15: the elapsed() of a clock made with step s is n * s after n calls of
\* advance(), and 0 before the first
C15_ElapsedIsStepsTimesStep ==
    m_animationDriver.exists
        => /\ elapsed(m_animationDriver)
                 = m_animationDriver.advances * m_animationDriver.m_step
           /\ m_animationDriver.advances = 0 => elapsed(m_animationDriver) = 0
C15_Witness ==
    /\ m_animationDriver.exists
    /\ m_animationDriver.advances >= 3
    /\ m_animationDriver.m_step > 0
    /\ elapsed(m_animationDriver) = 3 * m_animationDriver.m_step

\* C16: no advance of the clock of a session with fps >= 1 and duration >= 1
\* makes the elapsed logical time smaller
C16_ElapsedNeverDecreases ==
    [][(/\ m_fps >= 1 /\ m_duration >= 1
        /\ m_animationDriver.exists /\ m_animationDriver'.exists
        /\ m_animationDriver'.advances = m_animationDriver.advances + 1)
          => elapsed(m_animationDriver') >= elapsed(m_animationDriver)]_vars

\* the smaller of two numbers
Min(a, b) == IF a <= b THEN a ELSE b

\* C17: in a renderFrame call the current frame index is the number of render
\* steps finished, and no render request is issued after the step at which
\* the index equals the requested one, nor after the total frame count is
\* reached (stated for sessions whose clock step is defined)
C17_StepsStopAtRequestedFrame ==
    (HealthySession /\ call.kind = "frame")
        => /\ m_currentFrame <= callSteps
           /\ callSteps <= m_currentFrame + 1
           /\ callSteps <= Min(m_requestedFrame + 1, m_framesCount)

\* C18: a renderFrame call that repeats the arguments of the call before it
\* performs as many render steps (each followed by one clock advance) as that
\* call did and returns the image of the same step, so one captured at the
\* same elapsed logical time (stated for sessions whose clock step is
\* defined)
C18_RepeatedCallRunsTheSame ==
    (HealthySession /\ mpc = "idle" /\ ret.kind = "frame"
       /\ prevRun.kind = "frame")
        => /\ callSteps = prevRun.steps
           /\ ret.img.step = prevRun.step

\* C13: when the worker has completed a render step (the caller is woken and
\* has not yet left the wait), the render target exists and its size is the
\* requested size times the device pixel ratio
C13_TargetMatchesRequestedSize ==
    (mpc = "waiting" /\ parked /\ woken)
        => (m_fbo # NoSize /\ m_fbo = Scale(w_size, m_dpr))

RECURSIVE SumTo(_, _)
\* f[1] + ... + f[n]
SumTo(f, n) == IF n = 0 THEN 0 ELSE SumTo(f, n - 1) + f[n]
\* the largest number of a set that is not empty
MaxOf(S) == CHOOSE m \in S : \A x \in S : x <= m

RECURSIVE GroupsOfAnimations(_)
\* the scene is made of groups and animations, no parallel group is empty
GroupsOfAnimations(node) ==
    /\ node.kind \in {"Sequential", "Parallel", "Animation"}
    /\ node.kind = "Parallel" => node.children # <<>>
    /\ \A i \in 1..Len(node.children) : GroupsOfAnimations(node.children[i])

RECURSIVE ClaimedDuration(_)
\* the duration as claimed: the sum over a sequential group, the maximum
\* over a parallel group, the duration of an animation
ClaimedDuration(node) ==
    LET d == [i \in 1..Len(node.children)
                 |-> ClaimedDuration(node.children[i])]
    IN  IF node.kind = "Sequential" THEN SumTo(d, Len(node.children))
        ELSE IF node.kind = "Parallel"
        THEN MaxOf({d[i] : i \in 1..Len(node.children)})
        ELSE getIntProp(node)

\* C19: for a scene made of groups and animations getMaxDuration returns
\* the sum of the children's durations for a sequential group and the
\* maximum of the children's durations for a parallel group, at every level
\* of the tree
C19_SequentialSumParallelMax ==
    (maxDuration # NotCalled /\ GroupsOfAnimations(scene))
        => maxDuration = [state |-> "returned", val |-> ClaimedDuration(scene)]
C19_Witness ==
    /\ scene = Node("Parallel", <<>>,
                    <<Node("Sequential", <<>>,
                           <<Node("Animation", <<1000>>, <<>>),
                             Node("Animation", <<2500>>, <<>>)>>),
                      Node("Animation", <<2500>>, <<>>)>>)
    /\ maxDuration = [state |-> "returned", val |-> 3]

\* C20: at most one session exists and it is the stored one; the first
\* request that gets to render constructs it; a request that finds a session
\* stored and forces no refresh constructs none, keeps the stored one and, if
\* it renders, renders with it
C20_SessionCreatedOnceAndReused ==
    /\ Cardinality(liveSessions) <= 1
    /\ liveSessions = (IF qrenderer = 0 THEN {} ELSE {qrenderer})
    /\ req.rendered => req.used = qrenderer /\ qrenderer # 0
    /\ req.n = 1 => (req.constructed \/ req.gaveUp)
    /\ (req.n > 0 /\ req.storedBefore # 0 /\ ~req.forced)
          => /\ ~req.constructed
             /\ qrenderer = req.storedBefore
             /\ created <= req.n - 1
C20_Witness ==
    /\ req.n = 2 /\ ~req.forced /\ req.rendered
    /\ req.storedBefore = 1 /\ req.used = 1 /\ created = 1

\* the call that is running or was the last to run ended in initDriver
CrashedInInitDriver == mpc = "crashed" /\ loadFailure # "crashed"

\* C21 as claimed: across the render calls of a session, static or animated,
\* the scene component and the root item are created at most once
C21_LoadedOncePerSession ==
    loads <= 1
\* C21 as amended: a static session creates the scene component and the root
\* item at most once, in its first render call; an animated session creates
\* them once in every renderFrame call that gets past initDriver
C21_LoadedOncePerInitialisingCall ==
    /\ ~(m_duration > 0)
          => /\ loads <= 1
             /\ loads = (IF calls = 0 \/ CrashedInInitDriver THEN 0 ELSE 1)
    /\ m_duration > 0
          => loads = calls - (IF CrashedInInitDriver THEN 1 ELSE 0)
C21_Witness ==
    /\ m_duration > 0 /\ sceneOk /\ calls = 2 /\ loads = 2
    /\ mpc = "idle" /\ ret.kind = "frame"

\* C22: every advance of the clock is a step of the calling thread, taken
\* while the worker handles no request; no step of the worker advances it
C22_ClockAdvancedByCallerOnly ==
    [][(/\ m_animationDriver.exists /\ m_animationDriver'.exists
        /\ m_animationDriver'.advances = m_animationDriver.advances + 1)
          => (mpc' # mpc /\ wcur = "none" /\ wcur' = "none")]_vars

\* C23: the calling thread does not hold the worker's mutex when it polishes
\* (before it takes the mutex for the render request), and when a render
\* step has returned to the caller, in the event loop or after the call,
\* neither thread holds the mutex
C23_PolishOutsideLockStepLeavesMutexFree ==
    /\ mpc = "lock" => mutex # "main"
    /\ (mpc \in {"idle", "exec"} /\ callSteps > 0)
          => (mutex = "free" /\ wcur = "none" /\ ~parked)
C23_Witness ==
    /\ mpc = "idle" /\ ret.kind = "static" /\ calls = 2 /\ callSteps = 1
    /\ mutex = "free"

\* the requests whose handlers work on the GPU context
GpuRequests == {"INIT", "RENDER", "STOP"}

Queued(kind) == Cardinality({i \in 1..Len(wq) : wq[i] = kind})
\* the INIT requests the worker has handled to the end
InitsHandled == initPosted - Queued("INIT") - (IF wcur = "INIT" THEN 1 ELSE 0)
\* the RENDER requests the worker has taken from its queue
RendersTaken == renderPosted - Queued("RENDER")

\* C25: the worker takes a render request only after it has handled an INIT
\* request to the end: when it has taken one, every INIT request posted so
\* far has been handled (INIT is posted first and the queue is first in,
\* first out) and the render control is initialised
C25_InitHandledBeforeRender ==
    /\ RendersTaken > 0 => (InitsHandled >= 1 /\ rc # "fresh")
    /\ wcur = "RENDER" => /\ InitsHandled = initPosted
                          /\ Queued("INIT") = 0
                          /\ rc = "initialized"
C25_Witness ==
    /\ wcur = "RENDER" /\ calls = 1 /\ callSteps = 1 /\ renderPosted = 1
    /\ InitsHandled = 1 /\ rc = "initialized"

\* how often a teardown step has happened
Count(e) == Cardinality({i \in 1..Len(dlog) : dlog[i] = e})

\* C26: once the worker has handled the stop request its render target is
\* released, the render control is invalidated, the context is no longer the
\* worker's, and completion has been signalled exactly once
C26_StopReleasesWorkerResources ==
    /\ Count("stop_signalled") <= 1
    /\ Count("stop_signalled") = Count("stop_posted")
           - Queued("STOP") - (IF wcur = "STOP" THEN 1 ELSE 0)
    /\ Pos("stop_signalled") > 0
          => /\ m_fbo = NoSize
             /\ rc = "invalidated"
             /\ ctx \in {"main", "destroyed"}

\* C27: from the moment the destructor posts the stop request the worker
\* takes no request but that one: nothing else is queued or being handled
\* when it is posted, and once it is handled the queue is empty and stays so
C27_StopIsLastRequest ==
    /\ Pos("stop_posted") > 0
          => /\ \A i \in 1..Len(wq) : wq[i] = "STOP"
             /\ wcur \in {"none", "STOP"}
    /\ wcur = "STOP" => wq = <<>>
    /\ Pos("stop_signalled") > 0 => (wq = <<>> /\ wcur = "none")
C27_Witness ==
    /\ mpc = "destroyed" /\ wthread = "finished" /\ wq = <<>>
    /\ m_duration > 0 /\ calls = 2 /\ initPosted = 2 /\ renderPosted >= 2

\* C28: in the teardown the render control is invalidated and the render
\* target released before the context is deleted, and the context is deleted
\* before the offscreen surface
C28_ReleaseInDependencyOrder ==
    /\ Before("worker_invalidated", "context_deleted")
    /\ Before("fbo_released", "context_deleted")
    /\ Before("invalidated", "context_deleted")
    /\ Before("context_deleted", "surface_deleted")
    /\ ctx = "destroyed" => (rc = "invalidated" /\ m_fbo = NoSize)
    /\ surface = "destroyed" => ctx = "destroyed"
C28_Witness ==
    /\ surface = "destroyed" /\ ctx = "destroyed" /\ m_fbo = NoSize
    /\ m_image # NullImage /\ Pos("fbo_released") > 0
    /\ Pos("context_deleted") > 0

C30_ClockStepWellDefined ==
    /\ calls > 0
          => /\ m_duration # 0
             /\ CDiv(m_framesCount - CorrectionFrames, m_duration) # 0
    /\ ~CrashedInInitDriver
    /\ m_animationDriver.exists => m_animationDriver.m_step > 0

RECURSIVE DeclaredDuration(_)
\* the duration of a tree of groups and animations as the description
\* gives it: the sum over a sequential group, the maximum over a parallel
\* group (0 when it has no children), the duration of an animation
DeclaredDuration(node) ==
    LET d == [i \in 1..Len(node.children)
                 |-> DeclaredDuration(node.children[i])]
    IN  IF node.kind = "Sequential" THEN SumTo(d, Len(node.children))
        ELSE IF node.kind = "Parallel"
        THEN MaxOf({0} \cup {d[i] : i \in 1..Len(node.children)})
        ELSE getIntProp(node)

\* the index of the first child of the node whose duration is not 0
FirstNonzeroChild(node) ==
    CHOOSE i \in 1..Len(node.children) :
       /\ DeclaredDuration(node.children[i]) # 0
       /\ \A j \in 1..(i - 1) : DeclaredDuration(node.children[j]) = 0

\* C31: for an object that is no group and no animation, with groups and
\* animations for children of which one has a duration that is not 0,
\* getMaxDuration returns the duration of the first such child in the order
\* of the children
C31_FirstNonzeroChildDuration ==
    (/\ maxDuration # NotCalled
     /\ scene.kind = "Item"
     /\ \A i \in 1..Len(scene.children) :
           scene.children[i].kind \in {"Sequential", "Parallel", "Animation"}
     /\ \E i \in 1..Len(scene.children) :
           DeclaredDuration(scene.children[i]) # 0)
        => maxDuration =
             [state |-> "returned",
              val |-> DeclaredDuration(scene.children[FirstNonzeroChild(scene)])]

\* C32: when a renderFrame call has returned, no update request the call
\* posted is left in the calling thread's event queue, and a renderFrame call
\* starts with none in it
C32_NoUpdateLeftAfterCall ==
    /\ (mpc = "idle" /\ ret.kind = "frame")
          => \A i \in 1..Len(mq) : mq[i] # "Update"
    /\ (call.kind = "frame" /\ mpc = "lock" /\ callSteps = 0)
          => \A i \in 1..Len(mq) : mq[i] # "Update"

\* C33: the step in which the worker leaves a render request whose
\* make-current failed changes neither the stored image nor the render
\* target, and takes the mutex from held by the worker to free
C33_FailedRenderChangesNothing ==
    [][(wcur = "RENDER" /\ wcur' = "none" /\ ~glFailed /\ glFailed')
          => /\ m_image' = m_image
             /\ m_fbo' = m_fbo
             /\ mutex = "worker" /\ mutex' = "free"]_vars
C33_Witness ==
    /\ glFailed /\ wcur = "none" /\ mutex = "free"
    /\ calls = 2 /\ parked /\ ~woken
    /\ m_image = m_img /\ m_image # NullImage /\ m_fbo # NoSize

\* C34: every call of getMaxDuration returns, with an integer >= 0: 0 for a
\* parallel group without children, and 0 for an object that is no group
\* and no animation when none of its children has a duration that is not 0
C34_GetMaxDurationTotal ==
    maxDuration # NotCalled
        => /\ maxDuration.state = "returned"
           /\ maxDuration.val >= 0
           /\ (scene.kind = "Parallel" /\ scene.children = <<>>)
                 => maxDuration.val = 0
           /\ (/\ scene.kind = "Item"
               /\ \A i \in 1..Len(scene.children) :
                     /\ scene.children[i].kind
                            \in {"Sequential", "Parallel", "Animation"}
                     /\ DeclaredDuration(scene.children[i]) = 0)
                 => maxDuration.val = 0

\* the whole seconds in the declared duration of an animation, 0 when it
\* declares none or one that is not positive
WholeSeconds(node) ==
    IF node.duration = <<>> THEN 0
    ELSE IF node.duration[1] <= 0 THEN 0
    ELSE node.duration[1] \div 1000

\* C36: getMaxDuration of an animation is the whole seconds of its declared
\* milliseconds, and that of a sequential group of animations is the sum of
\* the whole seconds of each: 0 when each is shorter than 1000 ms
C36_LeafDurationTruncatedToSeconds ==
    maxDuration # NotCalled
        => /\ scene.kind = "Animation"
                 => maxDuration = [state |-> "returned",
                                   val |-> WholeSeconds(scene)]
           /\ (/\ scene.kind = "Sequential"
               /\ \A i \in 1..Len(scene.children) :
                     scene.children[i].kind = "Animation")
                 => /\ maxDuration =
                         [state |-> "returned",
                          val |-> SumTo([i \in 1..Len(scene.children) |->
                                           WholeSeconds(scene.children[i])],
                                        Len(scene.children))]
                    /\ (\A i \in 1..Len(scene.children) :
                           /\ scene.children[i].duration # <<>>
                           /\ scene.children[i].duration[1] < 1000)
                          => maxDuration.val = 0
C36_Witness ==
    /\ scene = Node("Sequential", <<>>,
                    <<Node("Animation", <<500>>, <<>>),
                      Node("Animation", <<500>>, <<>>)>>)
    /\ maxDuration = [state |-> "returned", val |-> 0]

\* C35: when a producer_get_image call has been left, by a return or by an
\* exception, the service lock and the producer's mutex are not held; so
\* after a call that could not create the application and after one that
\* could not read the resource again
C35_LocksReleasedOnEveryExit ==
    ppc \in {"idle", "thrown"} => (~service_lock /\ ~self_mutex)

====
